---- MODULE Spec2Model ----
(***************************************************************************)
(* Candidate search and ranking service (backend/app.py).                  *)
(*                                                                         *)
(* Text is a sequence of one-character strings.  Scores are exact          *)
(* rationals [n |-> numerator, d |-> denominator] in lowest terms, d > 0;  *)
(* the code computes them in binary floating point, whose rounding error   *)
(* is not modelled.                                                        *)
(***************************************************************************)
EXTENDS Integers, Sequences, FiniteSets, TLC

VARIABLES
  store,      \* the provider's Candidates table: the records, in its order
  resp,       \* the response of the request just handled, until it is taken
  tq,         \* the text functions on their own: the query,
  tt,         \*   the candidate text,
  tout,       \*   and what the functions returned
  uiPc,       \* GET /api/search by counts: where the handler is,
  uiFetched,  \*   fetched, the number of records in all_records,
  uiOffset,   \*   the offset the last page came with ("" for none),
  uiLen,      \*   and the number of items returned
  ing,        \* the ingest_application calls in progress, one per worker
  apps        \* the provider's Applications table

vars ==
  <<store, resp, tq, tt, tout, uiPc, uiFetched, uiOffset, uiLen, ing, apps>>

(***************************************************************************)
(* Characters                                                              *)
(***************************************************************************)
UpLow ==
  [c \in {"A","B","C","D","E","F","G","H","I","J","K","L","M","N","O","P","Q",
          "R","S","T","U","V","W","X","Y","Z"} |->
     CASE c = "A" -> "a" [] c = "B" -> "b" [] c = "C" -> "c" [] c = "D" -> "d"
       [] c = "E" -> "e" [] c = "F" -> "f" [] c = "G" -> "g" [] c = "H" -> "h"
       [] c = "I" -> "i" [] c = "J" -> "j" [] c = "K" -> "k" [] c = "L" -> "l"
       [] c = "M" -> "m" [] c = "N" -> "n" [] c = "O" -> "o" [] c = "P" -> "p"
       [] c = "Q" -> "q" [] c = "R" -> "r" [] c = "S" -> "s" [] c = "T" -> "t"
       [] c = "U" -> "u" [] c = "V" -> "v" [] c = "W" -> "w" [] c = "X" -> "x"
       [] c = "Y" -> "y" [] c = "Z" -> "z"]

LowerLetters ==
  {"a","b","c","d","e","f","g","h","i","j","k","l","m","n","o","p","q","r",
   "s","t","u","v","w","x","y","z"}

Digits == {"0","1","2","3","4","5","6","7","8","9"}

\* str.lower(), one character
LowerChar(c) == IF c \in DOMAIN UpLow THEN UpLow[c] ELSE c

\* str.lower()
Lower(s) == [i \in 1..Len(s) |-> LowerChar(s[i])]

\* the class [a-z0-9] of tokenize_query's separator pattern [^a-z0-9]+
IsAlnum(c) == c \in LowerLetters \cup Digits

\* the class \w of extract_matched_terms' pattern \b\w+\b (letters of either
\* case, digits, underscore)
IsWord(c) == c \in LowerLetters \cup DOMAIN UpLow \cup Digits \cup {"_"}

\* the whitespace str.split() splits on
IsSpace(c) == c \in {" ", "\t", "\n"}

(***************************************************************************)
(* Sequences of characters                                                 *)
(***************************************************************************)
\* re.split(<separator class>+, s): the pieces of s between the maximal runs
\* of separator characters (sep[i] says that s[i] is a separator), empty
\* pieces at either end included
SplitOn(s, sep) ==
  LET n == Len(s)
      starts == {i \in 1..n : sep[i] /\ (i = 1 \/ ~sep[i - 1])}
      ends == {i \in 1..n : sep[i] /\ (i = n \/ ~sep[i + 1])}
      Nth(S, k) == CHOOSE x \in S : Cardinality({y \in S : y <= x}) = k
      m == Cardinality(starts)
  IN  [k \in 1..(m + 1) |->
         SubSeq(s, IF k = 1 THEN 1 ELSE Nth(ends, k - 1) + 1,
                   IF k = m + 1 THEN n ELSE Nth(starts, k) - 1)]

\* the non-empty pieces, in order
NonEmpty(ps) == SelectSeq(ps, LAMBDA p : p # <<>>)

\* the set of elements of a sequence
Range(f) == {f[i] : i \in DOMAIN f}

\* Python's  t in s  on strings
IsSubstr(t, s) ==
  \E i \in 0..(Len(s) - Len(t)) : \A j \in 1..Len(t) : s[i + j] = t[j]

\* str.split(): the maximal runs of non-whitespace characters
WsSplit(s) == NonEmpty(SplitOn(s, [i \in 1..Len(s) |-> IsSpace(s[i])]))

\* re.findall(r'\b\w+\b', s): the maximal runs of word characters
WordRuns(s) == NonEmpty(SplitOn(s, [i \in 1..Len(s) |-> ~IsWord(s[i])]))

(***************************************************************************)
(* Query processing and matched terms                                      *)
(***************************************************************************)
STOPWORDS ==
  { <<"a">>, <<"a","n">>, <<"t","h","e">>, <<"a","n","d">>, <<"o","r">>,
    <<"b","u","t">>, <<"i","f">>, <<"t","h","e","n">>, <<"e","l","s","e">>,
    <<"f","o","r">>, <<"t","o">>, <<"o","f">>, <<"i","n">>, <<"o","n">>,
    <<"a","t">>, <<"b","y">>, <<"w","i","t","h">>, <<"f","r","o","m">>,
    <<"i","s">>, <<"a","r","e">>, <<"w","a","s">>, <<"w","e","r","e">>,
    <<"b","e">>, <<"b","e","e","n">>, <<"b","e","i","n","g">>, <<"a","s">>,
    <<"i","t">>, <<"t","h","i","s">>, <<"t","h","a","t">>,
    <<"t","h","e","s","e">>, <<"t","h","o","s","e">>, <<"y","o","u">>,
    <<"y","o","u","r">>, <<"y","o","u","r","s">>, <<"i">>, <<"w","e">>,
    <<"t","h","e","y">>, <<"h","e">>, <<"s","h","e">>, <<"t","h","e","m">>,
    <<"h","i","m">>, <<"h","e","r">>, <<"m","y">>, <<"o","u","r">>,
    <<"u","s">>, <<"m","e">> }

RECURSIVE Dedup_KeepsRepeats(_, _, _)
\* the loop without its seen set
Dedup_KeepsRepeats(ts, i, terms) ==
  IF i > Len(ts) THEN terms
  ELSE LET t == ts[i] IN
       IF t = <<>> \/ Len(t) < 2 \/ t \in STOPWORDS
       THEN Dedup_KeepsRepeats(ts, i + 1, terms)
       ELSE Dedup_KeepsRepeats(ts, i + 1, Append(terms, t))

RECURSIVE Dedup(_, _, _)
\* the loop of tokenize_query: keep, in order, each piece that is neither
\* dropped nor seen before
Dedup(ts, i, terms) ==
  IF i > Len(ts) THEN terms
  ELSE LET t == ts[i] IN
       IF t = <<>> \/ Len(t) < 2 \/ t \in STOPWORDS
       THEN Dedup(ts, i + 1, terms)
       ELSE IF t \in Range(terms)
            THEN Dedup(ts, i + 1, terms)
            ELSE Dedup(ts, i + 1, Append(terms, t))

tokenize_query(query) ==
  IF query = <<>> THEN <<>>
  ELSE LET q == Lower(query) IN
       Dedup(SplitOn(q, [i \in 1..Len(q) |-> ~IsAlnum(q[i])]), 1, <<>>)

\* the filter of the matched list written with "or" for "and"
MatchedList_Or(query, text) ==
  LET resume_lower == Lower(text) IN
  SelectSeq(WordRuns(Lower(query)),
            LAMBDA term : Len(term) > 2 \/ IsSubstr(term, resume_lower))

\* the length test written >= 2 for > 2
MatchedList_MinLen2(query, text) ==
  LET resume_lower == Lower(text) IN
  SelectSeq(WordRuns(Lower(query)),
            LAMBDA term : Len(term) >= 2 /\ IsSubstr(term, resume_lower))

\* the matched list before list(set(...)), in query order
MatchedList(query, text) ==
  LET resume_lower == Lower(text) IN
  SelectSeq(WordRuns(Lower(query)),
            LAMBDA term : Len(term) > 2 /\ IsSubstr(term, resume_lower))

\* extract_matched_terms on a text already coerced to a string; the result
\* list(set(matched)) is modelled as the set
extract_matched_terms(query, text) == Range(MatchedList(query, text))

(***************************************************************************)
(* Numbers                                                                 *)
(***************************************************************************)
RECURSIVE GCD(_, _)
GCD(a, b) == IF b = 0 THEN a ELSE GCD(b, a % b)

Abs(x) == IF x < 0 THEN -x ELSE x

\* the rational n/d (d > 0) in lowest terms
Rat(n, d) == LET g == GCD(Abs(n), d) IN [n |-> n \div g, d |-> d \div g]

RAdd(a, b) == Rat(a.n * b.d + b.n * a.d, a.d * b.d)
RMul(a, b) == Rat(a.n * b.n, a.d * b.d)
RLe(a, b) == a.n * b.d <= b.n * a.d
RLt(a, b) == a.n * b.d < b.n * a.d
\* Python's min(a, b) and max(a, b): the first argument wins a tie
RMin(a, b) == IF RLt(b, a) THEN b ELSE a
RMax(a, b) == IF RLt(a, b) THEN b ELSE a

\* round(x, 3), in thousandths (ties to even)
Round3(x) ==
  LET q == (1000 * x.n) \div x.d
      r == 1000 * x.n - q * x.d
  IN  IF 2 * r < x.d THEN q
      ELSE IF 2 * r > x.d THEN q + 1
      ELSE IF q % 2 = 0 THEN q ELSE q + 1

\* int(x) of a float: truncation toward zero
Trunc(x) == IF x.n >= 0 THEN x.n \div x.d ELSE -((-x.n) \div x.d)

(***************************************************************************)
(* Field values of a record of the store: a field is absent, a string, a   *)
(* number, or a list of strings (a structured, non-text value).            *)
(***************************************************************************)
Absent == [t |-> "absent"]
Str(s) == [t |-> "str", v |-> s]
Num(n) == [t |-> "int", v |-> n]
List(l) == [t |-> "list", v |-> l]
\* JSON null / Python None
NoneV == [t |-> "none"]

RECURSIVE JoinFrom(_, _, _, _)
\* sep.join(parts)
JoinFrom(parts, sep, i, acc) ==
  IF i > Len(parts) THEN acc
  ELSE JoinFrom(parts, sep, i + 1,
                (IF i = 1 THEN acc ELSE acc \o sep) \o parts[i])

Join(parts, sep) == JoinFrom(parts, sep, 1, <<>>)

\* json.dumps of a list of strings (none of which needs escaping)
JsonDumps(l) ==
  <<"[">> \o Join([i \in 1..Len(l) |-> <<"\"">> \o l[i] \o <<"\"">>],
                  <<",", " ">>) \o <<"]">>

\* fields.get("Resume Text", "") followed by the coercion of a non-string
CoerceResume(f) ==
  CASE f.t = "absent" -> <<>>
    [] f.t = "str" -> f.v
    [] f.t = "list" -> JsonDumps(f.v)

\* the summary of search_candidates_ui as a string, None being "absent":
\* a falsy value ('' or []) falls through the or-chain to None
NormalizeSummary(f) ==
  CASE f.t = "absent" -> Absent
    [] f.t = "str" -> IF f.v = <<>> THEN Absent ELSE f
    [] f.t = "list" -> IF f.v = <<>> THEN Absent
                       ELSE Str(Join(f.v, <<" ", "\n">>))

RECURSIVE DigitsValue(_, _, _)
DigitsValue(s, i, acc) ==
  IF i > Len(s) THEN acc
  ELSE DigitsValue(s, i + 1,
         10 * acc + (CHOOSE k \in 0..9 :
                       <<"0","1","2","3","4","5","6","7","8","9">>[k + 1] = s[i]))

\* the string is an optional sign followed by decimal digits
IsIntLiteral(s) ==
  LET body == IF s # <<>> /\ s[1] \in {"-", "+"} THEN Tail(s) ELSE s IN
  body # <<>> /\ \A i \in 1..Len(body) : body[i] \in Digits

IntLiteral(s) ==
  IF s[1] = "-" THEN -DigitsValue(Tail(s), 1, 0)
  ELSE IF s[1] = "+" THEN DigitsValue(Tail(s), 1, 0)
  ELSE DigitsValue(s, 1, 0)

\* int(fields.get("Intent Count", 0) or 0): [ok |-> FALSE] when int() raises
IntentCountA(f) ==
  CASE f.t = "absent" -> [ok |-> TRUE, v |-> 0]
    [] f.t = "int" -> [ok |-> TRUE, v |-> f.v]
    [] f.t = "str" ->
         IF f.v = <<>> THEN [ok |-> TRUE, v |-> 0]
         ELSE IF IsIntLiteral(f.v) THEN [ok |-> TRUE, v |-> IntLiteral(f.v)]
         ELSE [ok |-> FALSE, v |-> 0]
    [] f.t = "list" ->
         IF f.v = <<>> THEN [ok |-> TRUE, v |-> 0] ELSE [ok |-> FALSE, v |-> 0]

\* get_intent_raw on a record whose only intent field is "Intent Count":
\* a number, or "nan" for the float that float('nan') yields
get_intent_raw(f) ==
  CASE f.t = "int" -> [k |-> "num", v |-> Rat(f.v, 1)]
    [] f.t = "str" ->
         IF IsIntLiteral(f.v) THEN [k |-> "num", v |-> Rat(IntLiteral(f.v), 1)]
         ELSE IF Lower(f.v) \in {<<"n","a","n">>, <<"+","n","a","n">>,
                                 <<"-","n","a","n">>}
              THEN [k |-> "nan", v |-> Rat(0, 1)]
              ELSE [k |-> "num", v |-> Rat(0, 1)]
    [] OTHER -> [k |-> "num", v |-> Rat(0, 1)]

(***************************************************************************)
(* Configuration                                                           *)
(***************************************************************************)
MAX_RESULTS == 20
INTENT_CAP == 5
RELEVANCE_ALPHA == Rat(3, 5)
\* the default of SearchRequest.limit
DEFAULT_LIMIT == 20
\* GET /api/search: the pageSize it asks for, and the fetched-count guard of
\* its page loop
UI_PAGE_SIZE == 100
UI_FETCH_CAP == 200
\* the default of generate_snippet's max_length
SNIPPET_MAX_LENGTH == 150

(***************************************************************************)
(* Snippet                                                                 *)
(***************************************************************************)
\* str.strip()
StrStrip(s) ==
  LET inner == {i \in 1..Len(s) : ~IsSpace(s[i])} IN
  IF inner = {} THEN <<>>
  ELSE SubSeq(s, CHOOSE a \in inner : \A k \in inner : a <= k,
                 CHOOSE b \in inner : \A k \in inner : k <= b)

\* s[:max_length] + "..." if len(s) > max_length else s
Truncate(s, max_length) ==
  IF Len(s) > max_length
  THEN SubSeq(s, 1, max_length) \o <<".", ".", ".">>
  ELSE s

\* the number of terms found in the lower-cased sentence
Matches(sentence, matched_terms) ==
  Cardinality({k \in 1..Len(matched_terms) :
                 IsSubstr(matched_terms[k], Lower(sentence))})

RECURSIVE BestSentence_LastWins(_, _, _, _, _)
\* the loop with >= for >: of the sentences with the most matches the last
BestSentence_LastWins(sentences, matched_terms, i, max_matches, best_sentence) ==
  IF i > Len(sentences) THEN best_sentence
  ELSE LET matches == Matches(sentences[i], matched_terms) IN
       IF matches > 0 /\ matches >= max_matches
       THEN BestSentence_LastWins(sentences, matched_terms, i + 1, matches,
                                  StrStrip(sentences[i]))
       ELSE BestSentence_LastWins(sentences, matched_terms, i + 1, max_matches,
                                  best_sentence)

RECURSIVE BestSentence(_, _, _, _, _)
\* the loop over the sentences: a sentence with more matches than any
\* before it becomes, stripped, the best sentence
BestSentence(sentences, matched_terms, i, max_matches, best_sentence) ==
  IF i > Len(sentences) THEN best_sentence
  ELSE LET matches == Matches(sentences[i], matched_terms) IN
       IF matches > max_matches
       THEN BestSentence(sentences, matched_terms, i + 1, matches,
                         StrStrip(sentences[i]))
       ELSE BestSentence(sentences, matched_terms, i + 1, max_matches,
                         best_sentence)

\* re.split(r'[.!?]+', text)
Sentences(text) ==
  SplitOn(text, [i \in 1..Len(text) |-> text[i] \in {".", "!", "?"}])

\* the best sentence returned whole, whatever its length
generate_snippet_SentenceUncut(resume_text, matched_terms, max_length) ==
  LET text == IF resume_text.t = "str" THEN resume_text.v
              ELSE JsonDumps(resume_text.v)
      best_sentence == BestSentence(Sentences(text), matched_terms, 1, 0, <<>>)
  IN  IF matched_terms = <<>> THEN Truncate(text, max_length)
      ELSE IF best_sentence # <<>> THEN best_sentence
      ELSE Truncate(text, max_length)

\* resume_text is a field value (a string, or a list the function puts
\* through json.dumps), matched_terms a list of strings
generate_snippet(resume_text, matched_terms, max_length) ==
  LET text == IF resume_text.t = "str" THEN resume_text.v
              ELSE JsonDumps(resume_text.v)
      best_sentence == BestSentence(Sentences(text), matched_terms, 1, 0, <<>>)
  IN  IF matched_terms = <<>> THEN Truncate(text, max_length)
      ELSE IF best_sentence # <<>>
           THEN IF Len(best_sentence) > max_length
                THEN SubSeq(best_sentence, 1, max_length) \o <<".", ".", ".">>
                ELSE best_sentence
      ELSE Truncate(text, max_length)

(***************************************************************************)
(* Sorting                                                                 *)
(***************************************************************************)
\* an ascending sort: reverse=True left out
InsertAt_Ascending(keys, acc, k) ==
  Cardinality({j \in 1..Len(acc) : RLe(keys[acc[j]], k)})

\* a descending sort that puts an element in front of its equals
InsertAt_Unstable(keys, acc, k) ==
  Cardinality({j \in 1..Len(acc) : RLt(k, keys[acc[j]])})

\* where the element with key k goes among the indices placed so far, under
\* list.sort(reverse=True): behind every element whose key is >= k
InsertAt(keys, acc, k) == Cardinality({j \in 1..Len(acc) : RLe(k, keys[acc[j]])})

RECURSIVE SortIdx(_, _, _)
SortIdx(keys, i, acc) ==
  IF i > Len(keys) THEN acc
  ELSE LET p == InsertAt(keys, acc, keys[i]) IN
       SortIdx(keys, i + 1,
               SubSeq(acc, 1, p) \o <<i>> \o SubSeq(acc, p + 1, Len(acc)))

\* items.sort(key=..., reverse=True): the items in descending order of
\* their keys, equal keys keeping their order (keys[i] is the key of items[i])
SortDesc(items, keys) ==
  LET idx == SortIdx(keys, 1, <<>>) IN [j \in 1..Len(items) |-> items[idx[j]]]

\* Python's seq[:limit]; limit is an integer or None
SliceTo(seq, limit) ==
  IF limit.t = "none" THEN seq
  ELSE IF limit.v >= 0
       THEN SubSeq(seq, 1, IF limit.v < Len(seq) THEN limit.v ELSE Len(seq))
       ELSE SubSeq(seq, 1,
                   IF Len(seq) + limit.v > 0 THEN Len(seq) + limit.v ELSE 0)

(***************************************************************************)
(* Mode A: POST /api/search                                                *)
(***************************************************************************)
\* the share of the query's words found in the text, in place of Jaccard
calculate_text_similarity_Overlap(query, text) ==
  IF query = <<>> \/ text = <<>> THEN Rat(0, 1)
  ELSE LET query_words == Range(WsSplit(Lower(query)))
           text_words == Range(WsSplit(Lower(text)))
           intersection == Cardinality(query_words \cap text_words)
       IN  IF query_words = {} THEN Rat(0, 1)
           ELSE Rat(intersection, Cardinality(query_words))

calculate_text_similarity(query, text) ==
  IF query = <<>> \/ text = <<>> THEN Rat(0, 1)
  ELSE LET query_words == Range(WsSplit(Lower(query)))
           text_words == Range(WsSplit(Lower(text)))
           intersection == Cardinality(query_words \cap text_words)
           union == Cardinality(query_words \cup text_words)
       IN  IF union = 0 THEN Rat(0, 1) ELSE Rat(intersection, union)

\* intent_norm = min(intent_count / INTENT_CAP, 1.0)
IntentNormA(intent_count) == RMin(Rat(intent_count, INTENT_CAP), Rat(1, 1))

\* the weighted combination without the clamp
RelevanceA_NoClamp(text_sim, intent_norm) ==
  RAdd(RMul(RELEVANCE_ALPHA, text_sim),
       RMul(RAdd(Rat(1, 1), RMul(Rat(-1, 1), RELEVANCE_ALPHA)), intent_norm))

\* no relevance at all without text similarity
RelevanceA_ZeroWithoutText(text_sim, intent_norm) ==
  LET relevance == RAdd(RMul(RELEVANCE_ALPHA, text_sim),
                        RMul(RAdd(Rat(1, 1), RMul(Rat(-1, 1), RELEVANCE_ALPHA)),
                             intent_norm))
  IN  IF text_sim = Rat(0, 1) THEN Rat(0, 1)
      ELSE RMax(Rat(0, 1), RMin(Rat(1, 1), relevance))

\* the weighted combination, clamped to [0, 1]
RelevanceA(text_sim, intent_norm) ==
  LET relevance == RAdd(RMul(RELEVANCE_ALPHA, text_sim),
                        RMul(RAdd(Rat(1, 1), RMul(Rat(-1, 1), RELEVANCE_ALPHA)),
                             intent_norm))
  IN  RMax(Rat(0, 1), RMin(Rat(1, 1), relevance))

\* the CandidateResult built from one record; relevance and fit_score are in
\* thousandths.  rid is the provider's id of the record the result was built
\* from: the handler does not return it when the record has a name.
ResultA(query, rec) ==
  LET resume_text == CoerceResume(rec.resume)
      intent_count == IntentCountA(rec.intent).v
      intent_norm == IntentNormA(intent_count)
      relevance == RelevanceA(calculate_text_similarity(query, resume_text),
                              intent_norm)
  IN  [rid |-> rec.id,
       candidate_id |-> rec.name,
       name |-> rec.name,
       relevance |-> Round3(relevance),
       fit_score |-> Round3(intent_norm),
       intent_count |-> intent_count,
       matched_terms |-> extract_matched_terms(query, resume_text),
       resume_text |-> resume_text,
       status |-> rec.status]

(***************************************************************************)
(* Mode B: GET /api/search                                                 *)
(***************************************************************************)
RECURSIVE PhrasesFrom(_, _, _)
\* the matches of "([^"]+)" from position i on, left to right
PhrasesFrom(s, i, acc) ==
  IF i > Len(s) THEN acc
  ELSE IF s[i] # "\"" THEN PhrasesFrom(s, i + 1, acc)
  ELSE LET close == {j \in (i + 1)..Len(s) : s[j] = "\""} IN
       IF close = {} THEN PhrasesFrom(s, i + 1, acc)
       ELSE LET j == CHOOSE c \in close : \A d \in close : c <= d IN
            IF j = i + 1 THEN PhrasesFrom(s, i + 1, acc)
            ELSE PhrasesFrom(s, j + 1, Append(acc, SubSeq(s, i + 1, j - 1)))

extract_phrases(query) ==
  IF query = <<>> THEN <<>> ELSE PhrasesFrom(Lower(query), 1, <<>>)

\* text = (summary or "").lower()
SummaryText(rec) ==
  LET summary == NormalizeSummary(rec.summary) IN
  IF summary.t = "absent" THEN <<>> ELSE Lower(summary.v)

\* the phrase boost added without its cap of 0.3
RelevancyB_BoostUncapped(terms, phrases, text) ==
  LET hits == Cardinality({i \in 1..Len(terms) : IsSubstr(terms[i], text)})
      relevancy == IF terms # <<>> THEN Rat(hits, Len(terms)) ELSE Rat(0, 1)
      boost == Rat(Cardinality({i \in 1..Len(phrases) :
                                  phrases[i] # <<>> /\ IsSubstr(phrases[i], text)}),
                   10)
  IN  RMin(Rat(1, 1), RAdd(relevancy, boost))

\* hits / len(terms), then the phrase boost, then the clamp
RelevancyB(terms, phrases, text) ==
  LET hits == Cardinality({i \in 1..Len(terms) : IsSubstr(terms[i], text)})
      relevancy == IF terms # <<>> THEN Rat(hits, Len(terms)) ELSE Rat(0, 1)
      boost == Rat(Cardinality({i \in 1..Len(phrases) :
                                  phrases[i] # <<>> /\ IsSubstr(phrases[i], text)}),
                   10)
  IN  RMin(Rat(1, 1), RAdd(relevancy, RMin(boost, Rat(3, 10))))

\* intent_norm = min((intent_raw or 0.0) / 5.0, 1.0), intent_raw a number
IntentNormB(intent_raw) == RMin(RMul(intent_raw, Rat(1, 5)), Rat(1, 1))

\* an item of relevancy 0 ranked by intent_norm alone, terms or no terms
FinalScoreB_IntentOnly(terms, relevancy, intent_norm) ==
  IF terms # <<>> /\ relevancy # Rat(0, 1)
  THEN RAdd(RMul(Rat(3, 5), relevancy), RMul(Rat(2, 5), intent_norm))
  ELSE intent_norm

\* an empty query ranked by relevancy in place of intent
FinalScoreB_EmptyByRelevancy(terms, relevancy, intent_norm) ==
  IF terms # <<>>
  THEN RAdd(RMul(Rat(3, 5), relevancy), RMul(Rat(2, 5), intent_norm))
  ELSE relevancy

\* the blend taken for an empty term list too
FinalScoreB_AlwaysBlended(terms, relevancy, intent_norm) ==
  RAdd(RMul(Rat(3, 5), relevancy), RMul(Rat(2, 5), intent_norm))

FinalScoreB(terms, relevancy, intent_norm) ==
  IF terms # <<>>
  THEN RAdd(RMul(Rat(3, 5), relevancy), RMul(Rat(2, 5), intent_norm))
  ELSE intent_norm

\* the item built from one record whose intent_raw is a number; relevance is
\* in thousandths
ItemB(terms, phrases, rec) ==
  LET relevancy == RelevancyB(terms, phrases, SummaryText(rec))
      intent_raw == get_intent_raw(rec.intent).v
  IN  [id |-> rec.id,
       name |-> rec.name,
       summary |-> NormalizeSummary(rec.summary),
       relevance |-> Round3(relevancy),
       intentCount |-> Trunc(intent_raw),
       finalScore |-> FinalScoreB(terms, relevancy, IntentNormB(intent_raw))]

(***************************************************************************)
(* The record provider                                                     *)
(***************************************************************************)
\* the records of one page: page numbers stand for the provider's offsets
PageOf(F, L, page) ==
  SubSeq(F, (page - 1) * L + 1, IF page * L < Len(F) THEN page * L ELSE Len(F))

RECURSIVE FetchActive(_, _, _, _, _)
\* the page loop of get_all_active_candidates over the records F that pass
\* its filter, the provider serving L records a page and answering request
\* number failPage with a non-200 status (0: it answers them all with 200)
FetchActive(F, L, failPage, page, all_records) ==
  IF page = failPage THEN [records |-> all_records, failed |-> TRUE]
  ELSE LET all == all_records \o PageOf(F, L, page) IN
       IF page * L < Len(F) THEN FetchActive(F, L, failPage, page + 1, all)
       ELSE [records |-> all, failed |-> FALSE]

\* the records get_all_active_candidates returns
get_all_active_candidates(recs, L, failPage) ==
  FetchActive(SelectSeq(recs, LAMBDA r : r.status # "Rejected"),
              L, failPage, 1, <<>>)

RECURSIVE FetchUI(_, _, _, _, _, _)
\* the page loop of search_candidates_ui (no filter), which goes on while
\* fetched < 200
FetchUI(F, L, failPage, page, all_records, fetched) ==
  IF ~(fetched < UI_FETCH_CAP) THEN [records |-> all_records, failed |-> FALSE]
  ELSE IF page = failPage THEN [records |-> all_records, failed |-> TRUE]
  ELSE LET recs == PageOf(F, L, page) IN
       IF page * L < Len(F)
       THEN FetchUI(F, L, failPage, page + 1, all_records \o recs,
                    fetched + Len(recs))
       ELSE [records |-> all_records \o recs, failed |-> FALSE]

(***************************************************************************)
(* Inputs of the model                                                     *)
(***************************************************************************)
MaxCand == 2

W_the == <<"t","h","e">>
W_sql == <<"s","q","l">>
W_go == <<"g","o">>
W_bi == <<"b","i">>
SP == <<" ">>
QUOTE == <<"\"">>

Profiles ==
  { [name |-> "ann", resume |-> Str(<<"T","h","e">> \o SP \o <<"S","Q","L">>),
     summary |-> Str(W_go \o SP \o W_sql), intent |-> Num(3)],
    [name |-> "bob", resume |-> Str(<<>>),
     summary |-> Absent, intent |-> Num(7)],
    [name |-> "cy", resume |-> List(<<W_sql>>),
     summary |-> List(<<<<"S","Q","L">>, W_bi>>), intent |-> Num(-3)],
    [name |-> "dee", resume |-> Str(W_go \o SP \o W_sql),
     summary |-> Str(W_sql), intent |-> Str(<<"a","b","c">>)],
    [name |-> "eve", resume |-> Absent,
     summary |-> Str(W_go), intent |-> Str(<<"n","a","n">>)],
    [name |-> "fay", resume |-> Str(W_go \o SP \o W_sql),
     summary |-> Str(W_sql), intent |-> Num(0)] }

\* "g" "o" "s" "q" bi sql: four phrases and the tokens bi, sql
Q_FourPhrases ==
  QUOTE \o <<"g">> \o QUOTE \o SP \o QUOTE \o <<"o">> \o QUOTE \o SP \o
  QUOTE \o <<"s">> \o QUOTE \o SP \o QUOTE \o <<"q">> \o QUOTE \o SP \o
  W_bi \o SP \o W_sql

\* "g" the: a phrase, and no token (a one-character word and a stopword)
Q_NoToken == QUOTE \o <<"g">> \o QUOTE \o SP \o W_the

Queries ==
  { <<>>,
    W_the \o SP \o W_sql,
    <<"S","Q","L">>,
    QUOTE \o W_go \o SP \o W_sql \o QUOTE,
    QUOTE \o W_go \o SP \o W_sql \o QUOTE \o SP \o W_bi,
    Q_FourPhrases,
    SP \o SP,
    Q_NoToken }

Limits == {Num(DEFAULT_LIMIT), Num(1), Num(0), Num(-1), NoneV}

\* records a page of the provider may hold
PageLens == {1, UI_PAGE_SIZE}
\* the page request the provider fails (0: none)
FailPages == {0, 1, 2}

Names == {p.name : p \in Profiles} \cup {"zed"}

\* the record with provider id i made from profile p
MkRec(i, p, st) ==
  [id |-> i, name |-> p.name, resume |-> p.resume, summary |-> p.summary,
   intent |-> p.intent, status |-> st]

Stores ==
  UNION { { [i \in 1..n |-> MkRec(i, ps[i], sts[i])] :
              ps \in [1..n -> Profiles], sts \in [1..n -> {"Active", "Rejected"}] } :
          n \in 0..MaxCand }

\* the workers that handle ingest_application calls
Workers == {"w1", "w2"}

\* no ingest_application call in progress
NoIngest == [w \in Workers |-> [pc |-> "idle"]]

\* the response of the request being answered, with what it was answered
\* from: the request's query and limit, whether the provider failed a page
\* request (failed) and the number of records fetched (n)
NoResp ==
  [op |-> "none", code |-> 0, body |-> <<>>, query |-> <<>>, limit |-> NoneV,
   failed |-> FALSE, n |-> 0]

(***************************************************************************)
(* Handlers                                                                *)
(***************************************************************************)
Init ==
  /\ store \in Stores
  /\ resp = NoResp
  /\ tq = <<>> /\ tt = <<>> /\ tout = NoneV
  /\ uiPc = "idle" /\ uiFetched = 0 /\ uiOffset = "" /\ uiLen = 0
  /\ ing = NoIngest /\ apps = <<>>

\* POST /api/search; request.limit is read at the slice only
search_candidates(query, L, failPage) ==
  /\ resp = NoResp
  /\ \E got \in {get_all_active_candidates(store, L, failPage)} :
       IF \E i \in 1..Len(got.records) : ~IntentCountA(got.records[i].intent).ok
       THEN \E limit \in Limits :
              resp' = [op |-> "search_post", code |-> 500, body |-> <<>>,
                       query |-> query, limit |-> limit, failed |-> got.failed,
                       n |-> Len(got.records)]
       ELSE \E results \in {[i \in 1..Len(got.records) |->
                               ResultA(query, got.records[i])]} :
            \E keys \in {[i \in 1..Len(results) |->
                            Rat(results[i].relevance, 1000)]} :
            \E sorted \in {SortDesc(results, keys)} :
            \E limit \in Limits :
              resp' = [op |-> "search_post", code |-> 200,
                       body |-> SliceTo(sorted, limit),
                       query |-> query, limit |-> limit, failed |-> got.failed,
                       n |-> Len(got.records)]
  /\ UNCHANGED <<store, tq, tt, tout, uiPc, uiFetched, uiOffset, uiLen, ing, apps>>

\* the item as returned, the internal _finalScore popped
Strip(it) ==
  [id |-> it.id, name |-> it.name, summary |-> it.summary,
   relevance |-> it.relevance, intentCount |-> it.intentCount]

\* a GET /api/search that resets the intent count of the records it fetched
search_candidates_ui_Writes(query, L, failPage) ==
  /\ resp = NoResp
  /\ \E got \in {FetchUI(store, L, failPage, 1, <<>>, 0)},
        terms \in {tokenize_query(query)}, phrases \in {extract_phrases(query)} :
       IF \E i \in 1..Len(got.records) :
            get_intent_raw(got.records[i].intent).k = "nan"
       THEN /\ resp' = [op |-> "search_get", code |-> 500, body |-> <<>>,
                        query |-> query, limit |-> NoneV, failed |-> got.failed,
                        n |-> Len(got.records)]
            /\ store' = store
       ELSE \E items \in {[i \in 1..Len(got.records) |->
                             ItemB(terms, phrases, got.records[i])]} :
            \E keys \in {[i \in 1..Len(items) |-> items[i].finalScore]} :
            \E sorted \in {SortDesc(items, keys)} :
              /\ resp' = [op |-> "search_get", code |-> 200,
                          body |-> [i \in 1..Len(sorted) |-> Strip(sorted[i])],
                          query |-> query, limit |-> NoneV,
                          failed |-> got.failed, n |-> Len(got.records)]
              /\ store' = [i \in 1..Len(store) |->
                             IF i <= Len(got.records)
                             THEN [store[i] EXCEPT !.intent = Num(0)]
                             ELSE store[i]]
  /\ UNCHANGED <<tq, tt, tout, uiPc, uiFetched, uiOffset, uiLen, ing, apps>>

\* GET /api/search
search_candidates_ui(query, L, failPage) ==
  /\ resp = NoResp
  /\ \E got \in {FetchUI(store, L, failPage, 1, <<>>, 0)},
        terms \in {tokenize_query(query)}, phrases \in {extract_phrases(query)} :
       IF \E i \in 1..Len(got.records) :
            get_intent_raw(got.records[i].intent).k = "nan"
       THEN resp' = [op |-> "search_get", code |-> 500, body |-> <<>>,
                     query |-> query, limit |-> NoneV, failed |-> got.failed,
                       n |-> Len(got.records)]
       ELSE \E items \in {[i \in 1..Len(got.records) |->
                             ItemB(terms, phrases, got.records[i])]} :
            \E keys \in {[i \in 1..Len(items) |-> items[i].finalScore]} :
            \E sorted \in {SortDesc(items, keys)} :
              resp' = [op |-> "search_get", code |-> 200,
                       body |-> [i \in 1..Len(sorted) |-> Strip(sorted[i])],
                       query |-> query, limit |-> NoneV, failed |-> got.failed,
                       n |-> Len(got.records)]
  /\ UNCHANGED <<store, tq, tt, tout, uiPc, uiFetched, uiOffset, uiLen, ing, apps>>

\* POST /api/reject: update_candidate_field(candidate_id, {"Status":
\* "Rejected"}) on the first record of that name; lookupOk and patchOk say
\* whether the provider answers the lookup and the update with 200.  The
\* HTTPException of update_candidate_field (404 without a record, 500 for a
\* failed update) is caught by the handler's except clause and raised again
\* with status 500.  The response is kept with the number of records the
\* lookup returned (n) and whether a request to the provider failed.
reject_candidate(candidate_id, lookupOk, patchOk) ==
  /\ resp = NoResp
  /\ LET found == {i \in 1..Len(store) : store[i].name = candidate_id} IN
     IF ~lookupOk \/ found = {} \/ ~patchOk
     THEN /\ resp' = [NoResp EXCEPT !.op = "reject", !.code = 500,
                                    !.n = IF lookupOk /\ found # {} THEN 1 ELSE 0,
                                    !.failed = ~lookupOk \/ found # {}]
          /\ store' = store
     ELSE LET i == CHOOSE f \in found : \A g \in found : f <= g IN
          /\ store' = [store EXCEPT ![i].status = "Rejected"]
          /\ resp' = [NoResp EXCEPT !.op = "reject", !.code = 200, !.n = 1]
  /\ UNCHANGED <<tq, tt, tout, uiPc, uiFetched, uiOffset, uiLen, ing, apps>>

\* the client takes the response; the next request can be handled
Reply ==
  /\ resp # NoResp
  /\ resp' = NoResp
  /\ UNCHANGED <<store, tq, tt, tout, uiPc, uiFetched, uiOffset, uiLen, ing, apps>>

Next ==
  \/ \E q \in Queries, L \in PageLens, fp \in FailPages :
       search_candidates(q, L, fp)
  \/ \E q \in Queries, L \in PageLens, fp \in FailPages :
       search_candidates_ui(q, L, fp)
  \/ \E c \in Names, lookupOk \in BOOLEAN, patchOk \in BOOLEAN :
       reject_candidate(c, lookupOk, patchOk)
  \/ Reply

Spec == Init /\ [][Next]_vars

(***************************************************************************)
(* The write paths: ingest_application, one provider request a step, on    *)
(* two workers; shortlist, reject and the candidate lookup.  A candidate   *)
(* record is its provider id, Candidate Name, Status, Shortlisted, Intent  *)
(* Count and Final Score; the fields an ingest copies from its request     *)
(* as they are (email, resume) are left out.                               *)
(***************************************************************************)
\* records the Candidates table and the Applications table may hold
MaxStore == 2
MaxApps == 2

\* the name ingested, and the ids looked up ("zed" has no record)
IngestNames == {"ann"}
LookupIds == {"ann", "bob", "zed"}

\* get_applications_count: "For now, return 1"
get_applications_count(candidate_name) == 1

\* the candidate_data of an ingest for name
CandidateData(name) ==
  LET intent_count == get_applications_count(name) + 1
      intent_norm == RMin(Rat(intent_count, INTENT_CAP), Rat(1, 1))
      fit_score == Rat(1, 2)
  IN  [name |-> name, status |-> "Active", intent |-> intent_count,
       final |-> RAdd(RMul(Rat(1, 2), intent_norm), RMul(Rat(1, 2), fit_score))]

\* get_candidate_by_id: the id of the first record of that name, 0 for
\* None (no record, or the provider did not answer 200)
LookupByName(name, ok) ==
  LET found == {i \in 1..Len(store) : store[i].name = name} IN
  IF ok /\ found # {} THEN CHOOSE f \in found : \A g \in found : f <= g ELSE 0

StoreInits ==
  { <<>>,
    <<[id |-> 1, name |-> "ann", status |-> "Active", shortlisted |-> FALSE,
       intent |-> 2, final |-> Rat(9, 20)]>>,
    <<[id |-> 1, name |-> "ann", status |-> "Rejected", shortlisted |-> TRUE,
       intent |-> 2, final |-> Rat(9, 20)]>>,
    <<[id |-> 1, name |-> "bob", status |-> "Active", shortlisted |-> FALSE,
       intent |-> 2, final |-> Rat(9, 20)],
      [id |-> 2, name |-> "ann", status |-> "Rejected", shortlisted |-> FALSE,
       intent |-> 2, final |-> Rat(9, 20)]>> }

InitStore ==
  /\ store \in StoreInits
  /\ resp = NoResp
  /\ ing = NoIngest /\ apps = <<>>
  /\ tq = <<>> /\ tt = <<>> /\ tout = NoneV
  /\ uiPc = "idle" /\ uiFetched = 0 /\ uiOffset = "" /\ uiLen = 0

\* POST /api/ingest_application arrives at worker w: candidate_data is
\* prepared
IngestStart(w, name) ==
  /\ ing[w].pc = "idle"
  /\ Len(apps) < MaxApps
  /\ ing' = [ing EXCEPT ![w] = [pc |-> "lookup", data |-> CandidateData(name)]]
  /\ UNCHANGED <<store, resp, tq, tt, tout, uiPc, uiFetched, uiOffset, uiLen,
                 apps>>

\* upsert_candidate: existing = get_candidate_by_id(name)
IngestLookup(w, ok) ==
  /\ ing[w].pc = "lookup"
  /\ ing' = [ing EXCEPT ![w] = [pc |-> "upsert", data |-> ing[w].data,
                                existing |-> LookupByName(ing[w].data.name, ok)]]
  /\ UNCHANGED <<store, resp, tq, tt, tout, uiPc, uiFetched, uiOffset, uiLen,
                 apps>>

\* upsert_candidate: PATCH of the existing record with candidate_data, or
\* POST of a new record; a status other than 200, 201 fails the call.  The
\* call keeps whether its request changed the table (changed).
IngestUpsert(w, ok) ==
  /\ ing[w].pc = "upsert"
  /\ LET data == ing[w].data
         existing == ing[w].existing
     IN  IF ~ok
         THEN /\ ing' = [ing EXCEPT ![w] = [pc |-> "done", data |-> data,
                                            code |-> 500, changed |-> FALSE]]
              /\ store' = store
         ELSE /\ existing = 0 => Len(store) < MaxStore
              /\ store' =
                   IF existing # 0
                   THEN [store EXCEPT ![existing].status = data.status,
                                      ![existing].intent = data.intent,
                                      ![existing].final = data.final]
                   ELSE Append(store,
                               [id |-> Len(store) + 1, name |-> data.name,
                                status |-> data.status, shortlisted |-> FALSE,
                                intent |-> data.intent, final |-> data.final])
              /\ ing' = [ing EXCEPT ![w] = [pc |-> "app", data |-> data,
                                            changed |-> store' # store]]
  /\ UNCHANGED <<resp, tq, tt, tout, uiPc, uiFetched, uiOffset, uiLen, apps>>

\* create_application: POST to the Applications table; a status other than
\* 201 fails the call
IngestCreateApplication(w, ok) ==
  /\ ing[w].pc = "app"
  /\ IF ok
     THEN /\ apps' = Append(apps, ing[w].data.name)
          /\ ing' = [ing EXCEPT ![w] = [pc |-> "done", data |-> ing[w].data,
                                        code |-> 200,
                                        changed |-> ing[w].changed]]
     ELSE /\ apps' = apps
          /\ ing' = [ing EXCEPT ![w] = [pc |-> "done", data |-> ing[w].data,
                                        code |-> 500,
                                        changed |-> ing[w].changed]]
  /\ UNCHANGED <<store, resp, tq, tt, tout, uiPc, uiFetched, uiOffset, uiLen>>

\* the response of the call is delivered
IngestReturn(w) ==
  /\ ing[w].pc = "done"
  /\ ing' = [ing EXCEPT ![w] = [pc |-> "idle"]]
  /\ UNCHANGED <<store, resp, tq, tt, tout, uiPc, uiFetched, uiOffset, uiLen,
                 apps>>

\* POST /api/shortlist: update_candidate_field(candidate_id,
\* {"Shortlisted": shortlisted}), its exceptions raised again with 500
shortlist_candidate(candidate_id, shortlisted, lookupOk, patchOk) ==
  /\ resp = NoResp
  /\ LET i == LookupByName(candidate_id, lookupOk) IN
     IF i = 0 \/ ~patchOk
     THEN /\ resp' = [NoResp EXCEPT !.op = "shortlist", !.code = 500,
                                    !.n = IF i = 0 THEN 0 ELSE 1,
                                    !.failed = ~lookupOk \/ i # 0]
          /\ store' = store
     ELSE /\ store' = [store EXCEPT ![i].shortlisted = shortlisted]
          /\ resp' = [NoResp EXCEPT !.op = "shortlist", !.code = 200, !.n = 1]
  /\ UNCHANGED <<tq, tt, tout, uiPc, uiFetched, uiOffset, uiLen, ing, apps>>

\* GET /api/candidate/{candidate_id}: the HTTPException with 404 is raised
\* inside the try block, caught by except Exception and raised again with
\* 500
get_candidate_details(candidate_id, lookupOk) ==
  /\ resp = NoResp
  /\ LET i == LookupByName(candidate_id, lookupOk) IN
     resp' = [NoResp EXCEPT !.op = "details",
                            !.code = IF i = 0 THEN 500 ELSE 200,
                            !.n = IF i = 0 THEN 0 ELSE 1,
                            !.failed = ~lookupOk]
  /\ UNCHANGED <<store, tq, tt, tout, uiPc, uiFetched, uiOffset, uiLen, ing,
                 apps>>

NextStore ==
  \/ \E w \in Workers, name \in IngestNames : IngestStart(w, name)
  \/ \E w \in Workers, ok \in BOOLEAN : IngestLookup(w, ok)
  \/ \E w \in Workers, ok \in BOOLEAN : IngestUpsert(w, ok)
  \/ \E w \in Workers, ok \in BOOLEAN : IngestCreateApplication(w, ok)
  \/ \E w \in Workers : IngestReturn(w)
  \/ \E c \in LookupIds, sh \in BOOLEAN,
        lookupOk \in BOOLEAN, patchOk \in BOOLEAN :
       shortlist_candidate(c, sh, lookupOk, patchOk)
  \/ \E c \in LookupIds, lookupOk \in BOOLEAN, patchOk \in BOOLEAN :
       reject_candidate(c, lookupOk, patchOk)
  \/ \E c \in LookupIds, lookupOk \in BOOLEAN :
       get_candidate_details(c, lookupOk)
  \/ Reply

SpecStore == InitStore /\ [][NextStore]_vars

(***************************************************************************)
(* The text functions on their own: a query and a text are drawn, and the  *)
(* functions applied to them.                                              *)
(***************************************************************************)
MaxFrags == 3

Frags == {W_the, W_sql, <<"S","Q","L">>, W_bi, SP, <<"_">>, QUOTE}

RECURSIVE FragStrings(_)
\* the concatenations of at most n fragments
FragStrings(n) ==
  IF n = 0 THEN {<<>>}
  ELSE LET S == FragStrings(n - 1) IN S \cup {x \o f : x \in S, f \in Frags}

TextPool ==
  { <<>>,
    <<"T","h","e">> \o SP \o <<"S","Q","L">>,
    W_go \o SP \o W_sql,
    JsonDumps(<<W_sql>>),
    W_the \o <<"_">> \o W_sql }

\* 3 years analyst Power BI
Q_Example ==
  <<"3">> \o SP \o <<"y","e","a","r","s">> \o SP \o
  <<"a","n","a","l","y","s","t">> \o SP \o <<"P","o","w","e","r">> \o SP \o
  <<"B","I">>

\* Analyst, 4 years. Power BI
T_Example ==
  <<"A","n","a","l","y","s","t">> \o <<",">> \o SP \o <<"4">> \o SP \o
  <<"y","e","a","r","s">> \o <<".">> \o SP \o <<"P","o","w","e","r">> \o SP \o
  <<"B","I">>

InitText ==
  /\ tq \in FragStrings(MaxFrags) \cup {Q_Example}
  /\ tt \in TextPool \cup {T_Example}
  /\ tout = NoneV
  /\ store = <<>> /\ resp = NoResp
  /\ uiPc = "idle" /\ uiFetched = 0 /\ uiOffset = "" /\ uiLen = 0
  /\ ing = NoIngest /\ apps = <<>>

\* extract_matched_terms(tq, tt), tokenize_query(tq) and extract_phrases(tq)
ApplyText ==
  /\ tout = NoneV
  /\ tout' = [t |-> "out",
              matched_terms |-> extract_matched_terms(tq, tt),
              tokens |-> tokenize_query(tq),
              phrases |-> extract_phrases(tq)]
  /\ UNCHANGED <<store, resp, tq, tt, uiPc, uiFetched, uiOffset, uiLen, ing, apps>>

NextText == ApplyText

SpecText == InitText /\ [][NextText]_vars

(***************************************************************************)
(* generate_snippet on its own: a text is drawn, and the function applied  *)
(* to it with a list of terms and a max_length.                            *)
(***************************************************************************)
DOT == <<".">>

SnippetTexts ==
  { Str(<<>>),
    Str(W_go \o SP \o W_sql),
    Str(SP \o W_go \o SP),
    Str(W_go \o DOT \o SP \o W_go \o SP \o W_sql \o <<"!">> \o SP \o W_bi),
    Str(W_sql \o SP \o W_bi \o DOT \o SP \o W_go \o SP \o W_sql),
    Str(<<"G","o">> \o SP \o <<"S","Q","L">> \o <<"?","!">> \o SP \o W_the
          \o SP \o W_sql \o SP \o W_bi \o DOT),
    Str(W_bi \o DOT \o DOT \o DOT),
    Str(W_go \o SP \o W_bi \o DOT \o DOT \o DOT),
    List(<<W_sql, W_go \o DOT \o SP \o W_bi>>) }

SnippetTerms ==
  { <<>>, <<W_sql>>, <<W_bi>>, <<W_go, W_sql>>, <<W_sql, W_bi, W_go>>,
    <<<<"x","y","z">>>> }

MaxLengths == {3, 6, SNIPPET_MAX_LENGTH}

InitSnippet ==
  /\ tt \in SnippetTexts
  /\ tq = <<>> /\ tout = NoneV
  /\ store = <<>> /\ resp = NoResp
  /\ uiPc = "idle" /\ uiFetched = 0 /\ uiOffset = "" /\ uiLen = 0
  /\ ing = NoIngest /\ apps = <<>>

\* generate_snippet(tt, matched_terms, max_length)
ApplySnippet(matched_terms, max_length) ==
  /\ tout = NoneV
  /\ tout' = [t |-> "snippet",
              matched_terms |-> matched_terms,
              max_length |-> max_length,
              snippet |-> generate_snippet(tt, matched_terms, max_length)]
  /\ UNCHANGED <<store, resp, tq, tt, uiPc, uiFetched, uiOffset, uiLen, ing, apps>>

NextSnippet ==
  \E matched_terms \in SnippetTerms, max_length \in MaxLengths :
    ApplySnippet(matched_terms, max_length)

SpecSnippet == InitSnippet /\ [][NextSnippet]_vars

(***************************************************************************)
(* The page loop of GET /api/search by record counts: the provider answers *)
(* each page request with a number of records and with or without an       *)
(* offset, or with a non-200 status.                                       *)
(***************************************************************************)
\* record counts of a page (pageSize is 100)
PageCounts == {0, 1, MAX_RESULTS + 1, UI_PAGE_SIZE}
\* the offsets a page may carry: none, or the token of the next page
PageOffsets == {"", "o1", "o2"}

InitUI ==
  /\ uiPc = "idle" /\ uiFetched = 0 /\ uiOffset = "" /\ uiLen = 0
  /\ store = <<>> /\ resp = NoResp
  /\ tq = <<>> /\ tt = <<>> /\ tout = NoneV
  /\ ing = NoIngest /\ apps = <<>>

\* all_records = [], fetched = 0, offset = None
UIStart ==
  /\ uiPc = "idle"
  /\ uiPc' = "fetch" /\ uiFetched' = 0 /\ uiOffset' = "" /\ uiLen' = 0
  /\ UNCHANGED <<store, resp, tq, tt, tout, ing, apps>>

\* one pass of the loop, the provider answering 200 with n records and the
\* offset of the next page ("" for none: "if not offset: break")
UIPage(n, offset) ==
  /\ uiPc = "fetch"
  /\ uiFetched < UI_FETCH_CAP
  /\ uiFetched' = uiFetched + n
  /\ uiOffset' = offset
  /\ uiPc' = IF offset # "" THEN "fetch" ELSE "score"
  /\ UNCHANGED <<store, resp, tq, tt, tout, uiLen, ing, apps>>

\* one pass of the loop, the provider answering with another status: break
UIPageFail ==
  /\ uiPc = "fetch"
  /\ uiFetched < UI_FETCH_CAP
  /\ uiPc' = "score"
  /\ UNCHANGED <<store, resp, tq, tt, tout, uiFetched, uiOffset, uiLen, ing, apps>>

\* the loop condition fetched < 200 fails
UICapStop ==
  /\ uiPc = "fetch"
  /\ ~(uiFetched < UI_FETCH_CAP)
  /\ uiPc' = "score"
  /\ UNCHANGED <<store, resp, tq, tt, tout, uiFetched, uiOffset, uiLen, ing, apps>>

\* one item is built from each record fetched, and all the items returned
UIReturn ==
  /\ uiPc = "score"
  /\ uiLen' = uiFetched
  /\ uiPc' = "done"
  /\ UNCHANGED <<store, resp, tq, tt, tout, uiFetched, uiOffset, ing, apps>>

NextUI ==
  \/ UIStart
  \/ \E n \in PageCounts, offset \in PageOffsets : UIPage(n, offset)
  \/ UIPageFail
  \/ UICapStop
  \/ UIReturn

SpecUI == InitUI /\ [][NextUI]_vars

\* the handler runs on: a request received is started, an enabled step of
\* the loop or of the return is taken; which answer the provider gives is
\* under no fairness
SpecUILive == InitUI /\ [][NextUI]_vars /\ WF_vars(NextUI)

(***************************************************************************)
(* What a search shows for one candidate: the matched terms and the        *)
(* snippet (app.py and simple_app.py alike), and simple_app's relevance    *)
(* from the stored Final Score.  tq is the request's query, tt the         *)
(* candidate's Resume Text.                                                *)
(***************************************************************************)
\* a number field holding a fraction
Real(r) == [t |-> "float", v |-> r]

RECURSIVE ListOfSet(_)
\* list(set(matched)): the elements in some order
ListOfSet(S) ==
  IF S = {} THEN <<>>
  ELSE LET x == CHOOSE y \in S : TRUE IN <<x>> \o ListOfSet(S \ {x})

\* simple_app: relevance before rounding, from the number of matched terms
\* and the Final Score field (0.5 when the record has none)
SimpleRelevance(n_matched, final_field) ==
  LET final_score == IF final_field = Absent THEN Rat(1, 2) ELSE final_field.v
      term_match_score == RMin(Rat(2 * n_matched, 10), Rat(1, 1))
  IN  RAdd(RMul(Rat(4, 10), term_match_score), RMul(Rat(6, 10), final_score))

W_data == <<"d","a","t","a">>
W_years == <<"y","e","a","r","s">>
W_power == <<"p","o","w","e","r">>
W_analyst == <<"a","n","a","l","y","s","t">>

\* six words of more than two characters
Q_Six ==
  W_sql \o SP \o W_the \o SP \o W_data \o SP \o W_years \o SP \o W_power \o SP
  \o W_analyst

\* a sentence longer than the snippet, the word sql at its end
T_Long == [i \in 1..SNIPPET_MAX_LENGTH |-> "x"] \o SP \o W_sql

ScoreQueries == {<<>>, W_sql, W_bi \o SP \o <<"S","Q","L">>, Q_Example, Q_Six}

ScoreTexts ==
  { <<>>,
    W_go \o SP \o W_sql,
    <<"B","i">> \o DOT \o SP \o <<"T","h","e">> \o SP \o <<"S","Q","L">> \o DOT,
    T_Example,
    Q_Six,
    T_Long }

FinalScores ==
  { Absent, Real(Rat(0, 1)), Real(Rat(9, 20)), Real(Rat(1, 1)),
    Real(Rat(3, 2)), Real(Rat(-1, 2)) }

InitScore ==
  /\ tq \in ScoreQueries
  /\ tt \in ScoreTexts
  /\ tout = NoneV
  /\ store = <<>> /\ resp = NoResp
  /\ uiPc = "idle" /\ uiFetched = 0 /\ uiOffset = "" /\ uiLen = 0
  /\ ing = NoIngest /\ apps = <<>>

\* app.py, the display part of a result: matched_terms =
\* extract_matched_terms(query, resume_text), snippet =
\* generate_snippet(resume_text, matched_terms)
ApplyDisplay ==
  /\ tout = NoneV
  /\ \E matched_terms \in {ListOfSet(extract_matched_terms(tq, tt))} :
       tout' = [t |-> "display",
                matched_terms |-> matched_terms,
                snippet |-> generate_snippet(Str(tt), matched_terms,
                                             SNIPPET_MAX_LENGTH)]
  /\ UNCHANGED <<store, resp, tq, tt, uiPc, uiFetched, uiOffset, uiLen, ing, apps>>

\* simple_app.py, one result of search_candidates: relevance in thousandths
\* (round(relevance, 3)), matched terms and snippet
ApplySimple(final_field) ==
  /\ tout = NoneV
  /\ \E matched_terms \in {ListOfSet(extract_matched_terms(tq, tt))} :
       tout' = [t |-> "simple",
                final_field |-> final_field,
                matched_terms |-> matched_terms,
                relevance |-> Round3(SimpleRelevance(Len(matched_terms),
                                                     final_field)),
                snippet |-> generate_snippet(Str(tt), matched_terms,
                                             SNIPPET_MAX_LENGTH)]
  /\ UNCHANGED <<store, resp, tq, tt, uiPc, uiFetched, uiOffset, uiLen, ing, apps>>

NextScore ==
  \/ ApplyDisplay
  \/ \E final_field \in FinalScores : ApplySimple(final_field)

SpecScore == InitScore /\ [][NextScore]_vars

(***************************************************************************)
(* Properties                                                              *)
(***************************************************************************)
PostOK == resp.op = "search_post" /\ resp.code = 200
GetOK == resp.op = "search_get" /\ resp.code = 200

\* the final score the GET handler sorted the returned item by
FinalOf(item) ==
  ItemB(tokenize_query(resp.query), extract_phrases(resp.query),
        store[item.id]).finalScore

\* the intent_norm the GET handler computed for the returned item
IntentNormOf(item) == IntentNormB(get_intent_raw(store[item.id].intent).v)

\* C1: every result of POST /api/search and of GET /api/search has a
\* relevance between 0 and 1 (relevance is in thousandths).
C1_RelevanceInUnitInterval ==
  (PostOK \/ GetOK) =>
    \A i \in 1..Len(resp.body) :
      0 <= resp.body[i].relevance /\ resp.body[i].relevance <= 1000

\* a POST result for a record with a negative intent count, its relevance
\* clamped to 0
C1_Witness ==
  /\ PostOK
  /\ \E i \in 1..Len(resp.body) :
       resp.body[i].intent_count < 0 /\ resp.body[i].relevance = 0

\* C2: every result has an intentNorm between 0 and 1: the fit_score of a
\* POST result (in thousandths), the intent_norm of a GET item.
C2_IntentNormInUnitInterval ==
  /\ PostOK =>
       \A i \in 1..Len(resp.body) :
         0 <= resp.body[i].fit_score /\ resp.body[i].fit_score <= 1000
  /\ GetOK =>
       \A i \in 1..Len(resp.body) :
         /\ RLe(Rat(0, 1), IntentNormOf(resp.body[i]))
         /\ RLe(IntentNormOf(resp.body[i]), Rat(1, 1))

\* C3: a search during which the provider answered a page request with a
\* non-success status fails as a whole; it returns no list.
C3_FetchFailureFailsRequest ==
  (resp.op \in {"search_post", "search_get"} /\ resp.failed) => resp.code # 200

\* C4: the list a search returns is in non-increasing order of the score it
\* is sorted by: the returned relevance (POST), the final score (GET).
C4_SortedDescending ==
  /\ PostOK =>
       \A i, j \in 1..Len(resp.body) :
         i < j => resp.body[i].relevance >= resp.body[j].relevance
  /\ GetOK =>
       \A i, j \in 1..Len(resp.body) :
         i < j => RLe(FinalOf(resp.body[j]), FinalOf(resp.body[i]))

\* a GET response in which the sort moved a later record in front of an
\* earlier one
C4_Witness ==
  /\ GetOK
  /\ Len(resp.body) >= 2
  /\ resp.body[1].id > resp.body[2].id

\* C5: two results with the same sort score are returned in the order in
\* which the provider supplied their records (the order of the record ids).
C5_SortStable ==
  /\ PostOK =>
       \A i, j \in 1..Len(resp.body) :
         (i < j /\ resp.body[i].relevance = resp.body[j].relevance)
           => resp.body[i].rid < resp.body[j].rid
  /\ GetOK =>
       \A i, j \in 1..Len(resp.body) :
         (i < j /\ FinalOf(resp.body[i]) = FinalOf(resp.body[j]))
           => resp.body[i].id < resp.body[j].id

\* a GET response with two items of the same final score, built from
\* records that differ
C5_Witness ==
  /\ GetOK
  /\ \E i, j \in 1..Len(resp.body) :
       /\ i < j
       /\ FinalOf(resp.body[i]) = FinalOf(resp.body[j])
       /\ resp.body[i].name # resp.body[j].name

\* C6: POST /api/search returns the first min(limit, N) of the N scored
\* candidates, never more than limit, for every integer limit (no result at
\* all for a limit of 0 or less).
C6_TruncatedToLimit ==
  (PostOK /\ resp.limit.t = "int") =>
    Len(resp.body) =
      (IF resp.limit.v <= 0 THEN 0
       ELSE IF resp.limit.v < resp.n THEN resp.limit.v ELSE resp.n)

\* C7: the list GET /api/search returns holds at most the limit of 20
\* results.
C7_UIResultWithinLimit == uiPc = "done" => uiLen <= MAX_RESULTS

\* C8 as stated: the matched terms are query tokens of tokenize_query, and
\* each occurs in the text, case ignored.
C8_MatchedTermsAreTokens ==
  tout # NoneV =>
    /\ tout.matched_terms \subseteq Range(tout.tokens)
    /\ \A term \in tout.matched_terms : IsSubstr(term, Lower(tt))

\* s[a..b] is a maximal run of word characters of s
IsWordRun(s, a, b) ==
  /\ 1 <= a /\ a <= b /\ b <= Len(s)
  /\ \A k \in a..b : IsWord(s[k])
  /\ (a = 1 \/ ~IsWord(s[a - 1]))
  /\ (b = Len(s) \/ ~IsWord(s[b + 1]))

\* t occurs at some position of s lower-cased
OccursInLowered(t, s) ==
  \E i \in 0..(Len(s) - Len(t)) : \A j \in 1..Len(t) : LowerChar(s[i + j]) = t[j]

\* C8: every matched term is a maximal run of word characters of the
\* lower-cased query that is longer than 2 characters (a stopword or a run
\* with an underscore included), and occurs in the lower-cased text.
C8_MatchedTermsAreWordRuns ==
  tout # NoneV =>
    \A term \in tout.matched_terms :
      /\ Len(term) > 2
      /\ \E a, b \in 1..Len(tq) :
           IsWordRun(Lower(tq), a, b) /\ term = SubSeq(Lower(tq), a, b)
      /\ OccursInLowered(term, tt)

\* a matched term that is no token of tokenize_query
C8_Witness ==
  /\ tout # NoneV
  /\ \E term \in tout.matched_terms : term \notin Range(tout.tokens)

\* C9: no search fails on account of a record's field values.
C9_MalformedFieldNeverFails ==
  resp.op \in {"search_post", "search_get"} => resp.code = 200

\* C10: no search returns a record whose status is Rejected.
C10_NoRejectedReturned ==
  /\ PostOK =>
       \A i \in 1..Len(resp.body) : store[resp.body[i].rid].status # "Rejected"
  /\ GetOK =>
       \A i \in 1..Len(resp.body) : store[resp.body[i].id].status # "Rejected"

\* the number of phrases of the request's query that occur in the summary
\* text the GET handler scored the returned item on
MatchedPhraseCount(item) ==
  LET phrases == extract_phrases(resp.query) IN
  Cardinality({k \in 1..Len(phrases) :
                 IsSubstr(phrases[k], SummaryText(store[item.id]))})

\* the number of tokens of the request's query that occur in that text
HitsOf(item) ==
  LET tokens == tokenize_query(resp.query) IN
  Cardinality({k \in 1..Len(tokens) :
                 IsSubstr(tokens[k], SummaryText(store[item.id]))})

\* C11: the relevance of every GET item is min(1, hits/|tokens| +
\* min(0.1 * matchedPhraseCount, 0.3)), hits/|tokens| read as 0 when there
\* is no token; the returned value is that number rounded to thousandths.
\* With n = |tokens| (1 when there is none) the sum is sumTenths / (10 n).
C11_PhraseBoostCappedThenClamped ==
  GetOK =>
    \A i \in 1..Len(resp.body) :
      LET tokens == tokenize_query(resp.query)
          n == IF tokens = <<>> THEN 1 ELSE Len(tokens)
          matched == MatchedPhraseCount(resp.body[i])
          capped == IF matched < 3 THEN matched ELSE 3
          sumTenths == 10 * HitsOf(resp.body[i]) + capped * n
          clamped == IF sumTenths < 10 * n THEN sumTenths ELSE 10 * n
      IN  2 * Abs(resp.body[i].relevance * n - 100 * clamped) <= n

\* an item with four matching phrases and half of the tokens hit: 0.8
C11_Witness ==
  /\ GetOK
  /\ \E i \in 1..Len(resp.body) :
       /\ MatchedPhraseCount(resp.body[i]) = 4
       /\ 2 * HitsOf(resp.body[i]) = Len(tokenize_query(resp.query))
       /\ resp.body[i].relevance = 800

\* the lower-cased words of s: its maximal runs of characters that are not
\* whitespace, each from a start a to the end of the run
WordSetOf(s) ==
  { SubSeq(Lower(s), a,
           CHOOSE b \in a..Len(s) :
             /\ \A k \in a..b : ~IsSpace(s[k])
             /\ (b = Len(s) \/ IsSpace(s[b + 1]))) :
      a \in { a \in 1..Len(s) : ~IsSpace(s[a]) /\ (a = 1 \/ IsSpace(s[a - 1])) } }

\* C12: the relevance of every POST result is clamp(0.6 * textSim + 0.4 *
\* intentNorm, 0, 1) rounded to thousandths, where intentNorm is
\* min(intent_count / 5, 1) and textSim is |Q \cap T| / |Q \cup T| for the
\* word sets Q of the query and T of the resume text (0 when both are
\* empty); fit_score is intentNorm; for intent_count = 3 the fit_score is
\* 0.6 and the relevance 0.6 * textSim + 0.24.
C12_RelevanceIsWeightedJaccardAndIntent ==
  PostOK =>
    \A Q \in {WordSetOf(resp.query)} : \A i \in 1..Len(resp.body) :
      LET r == resp.body[i]
          T == WordSetOf(r.resume_text)
          inter == Cardinality(Q \cap T)
          union == IF Q \cup T = {} THEN 1 ELSE Cardinality(Q \cup T)
          capped == IF r.intent_count < 5 THEN r.intent_count ELSE 5
          \* 0.6 * inter / union + 0.4 * capped / 5, over 25 * union
          num == 15 * inter + 2 * capped * union
          den == 25 * union
          clamped == IF num < 0 THEN 0 ELSE IF num > den THEN den ELSE num
      IN  /\ 2 * Abs(r.relevance * den - 1000 * clamped) <= den
          /\ r.fit_score = 200 * capped
          /\ r.intent_count = 3 =>
                /\ r.fit_score = 600
                /\ 2 * Abs(r.relevance * union - (600 * inter + 240 * union))
                     <= union

\* a result with intent_count 3 and half of the words shared: 0.3 + 0.24
C12_Witness ==
  /\ PostOK
  /\ \E i \in 1..Len(resp.body) :
       /\ resp.body[i].intent_count = 3
       /\ 2 * Cardinality(WordSetOf(resp.query)
                            \cap WordSetOf(resp.body[i].resume_text))
            = Cardinality(WordSetOf(resp.query)
                            \cup WordSetOf(resp.body[i].resume_text))
       /\ resp.body[i].relevance = 540

\* the GET item was scored on a query with a token, none of whose tokens
\* and phrases occurs in the summary
NoTokenHit(item) ==
  /\ tokenize_query(resp.query) # <<>>
  /\ HitsOf(item) = 0
  /\ MatchedPhraseCount(item) = 0

\* C13 as stated: a GET item of a query with at least one token, no token
\* and no phrase of which occurs in the summary, has relevance 0 and a
\* final score equal to intentNorm.
C13_NoHitFinalIsIntentNorm ==
  GetOK =>
    \A i \in 1..Len(resp.body) :
      NoTokenHit(resp.body[i]) =>
        /\ resp.body[i].relevance = 0
        /\ FinalOf(resp.body[i]) = IntentNormOf(resp.body[i])

\* C13: such an item has relevance 0 and the final score 0.4 * intentNorm,
\* the intent part of 0.6 * relevance + 0.4 * intentNorm.
C13_NoHitFinalIsWeightedIntentNorm ==
  GetOK =>
    \A i \in 1..Len(resp.body) :
      NoTokenHit(resp.body[i]) =>
        /\ resp.body[i].relevance = 0
        /\ 5 * FinalOf(resp.body[i]).n * IntentNormOf(resp.body[i]).d
             = 2 * IntentNormOf(resp.body[i]).n * FinalOf(resp.body[i]).d

\* such an item for a record whose intentNorm is not 0
C13_Witness ==
  /\ GetOK
  /\ \E i \in 1..Len(resp.body) :
       /\ NoTokenHit(resp.body[i])
       /\ IntentNormOf(resp.body[i]) # Rat(0, 1)

\* C14 as stated: a POST result whose resume text is empty has relevance 0,
\* whatever the query and the intent count; a GET item whose summary text
\* is empty has no token hit.
C14_EmptyTextRelevanceZero ==
  /\ PostOK =>
       \A i \in 1..Len(resp.body) :
         resp.body[i].resume_text = <<>> => resp.body[i].relevance = 0
  /\ GetOK =>
       \A i \in 1..Len(resp.body) :
         SummaryText(store[resp.body[i].id]) = <<>> => HitsOf(resp.body[i]) = 0

\* C14: a POST result whose resume text is empty has the relevance
\* clamp(0.4 * intentNorm, 0, 1), the text similarity being 0: that is
\* 0.08 * min(intent_count, 5), and 0 for a negative intent count.  A GET
\* item whose summary text is empty has no token hit and relevance 0.
C14_EmptyTextRelevanceIsIntentPart ==
  /\ PostOK =>
       \A i \in 1..Len(resp.body) :
         resp.body[i].resume_text = <<>> =>
           LET ic == resp.body[i].intent_count
               capped == IF ic < 5 THEN ic ELSE 5
           IN  resp.body[i].relevance = (IF capped < 0 THEN 0 ELSE 80 * capped)
  /\ GetOK =>
       \A i \in 1..Len(resp.body) :
         SummaryText(store[resp.body[i].id]) = <<>> =>
           HitsOf(resp.body[i]) = 0 /\ resp.body[i].relevance = 0

\* a POST result with an empty resume text and a relevance above 0, for a
\* query that is not empty
C14_Witness ==
  /\ PostOK
  /\ resp.query # <<>>
  /\ \E i \in 1..Len(resp.body) :
       resp.body[i].resume_text = <<>> /\ resp.body[i].relevance > 0

\* the query of the request is empty or made of whitespace only
BlankQuery == \A k \in 1..Len(resp.query) : IsSpace(resp.query[k])

\* C15: for an empty or blank query every GET item has relevance 0 and the
\* items are returned in non-increasing order of intentNorm, one item for
\* each record fetched.
C15_BlankQueryRanksByIntent ==
  (GetOK /\ BlankQuery) =>
    /\ Len(resp.body) = resp.n
    /\ \A i \in 1..Len(resp.body) : resp.body[i].relevance = 0
    /\ \A i, j \in 1..Len(resp.body) :
         i < j => RLe(IntentNormOf(resp.body[j]), IntentNormOf(resp.body[i]))

\* a blank query that is not empty, for which a record of higher intentNorm
\* was moved in front of an earlier record whose summary is not empty
C15_Witness ==
  /\ GetOK /\ BlankQuery /\ resp.query # <<>>
  /\ Len(resp.body) = 2
  /\ resp.body[1].id > resp.body[2].id
  /\ RLt(IntentNormOf(resp.body[2]), IntentNormOf(resp.body[1]))
  /\ SummaryText(store[resp.body[2].id]) # <<>>

\* s[a..b] is a maximal run of characters a-z, 0-9 of s
IsAlnumRun(s, a, b) ==
  /\ 1 <= a /\ a <= b /\ b <= Len(s)
  /\ \A k \in a..b : s[k] \in LowerLetters \cup Digits
  /\ (a = 1 \/ s[a - 1] \notin LowerLetters \cup Digits)
  /\ (b = Len(s) \/ s[b + 1] \notin LowerLetters \cup Digits)

\* the runs of the lower-cased query that count: at least 2 characters, no
\* stopword
KeptRuns(s) ==
  { ab \in (1..Len(s)) \X (1..Len(s)) :
      /\ IsAlnumRun(Lower(s), ab[1], ab[2])
      /\ ab[2] - ab[1] + 1 >= 2
      /\ SubSeq(Lower(s), ab[1], ab[2]) \notin STOPWORDS }

\* where t first occurs as a run that counts
FirstRunOf(s, t) ==
  CHOOSE a \in 1..Len(s) :
    /\ \E ab \in KeptRuns(s) : ab[1] = a /\ SubSeq(Lower(s), ab[1], ab[2]) = t
    /\ \A ab \in KeptRuns(s) : SubSeq(Lower(s), ab[1], ab[2]) = t => a <= ab[1]

\* C16: the tokens of a query are exactly the maximal runs of a-z, 0-9 of
\* the lower-cased query that have at least 2 characters and are no
\* stopword, each once, in the order of their first occurrence; a query
\* that is empty or blank has no tokens and no phrases.
C16_TokensAreKeptRunsInOrder ==
  tout # NoneV =>
    /\ { tout.tokens[i] : i \in 1..Len(tout.tokens) }
         = { SubSeq(Lower(tq), ab[1], ab[2]) : ab \in KeptRuns(tq) }
    /\ \A i, j \in 1..Len(tout.tokens) :
         i < j => /\ tout.tokens[i] # tout.tokens[j]
                  /\ FirstRunOf(tq, tout.tokens[i]) < FirstRunOf(tq, tout.tokens[j])
    /\ (\A k \in 1..Len(tq) : IsSpace(tq[k])) =>
         tout.tokens = <<>> /\ tout.phrases = <<>>

\* a query in which a token occurs twice, in two cases
C16_Witness ==
  /\ tout # NoneV
  /\ Len(tout.tokens) = 1
  /\ Cardinality(KeptRuns(tq)) = 2
  /\ tq # Lower(tq)

\* C18: a step in which a search (GET or POST) is answered, with a list or
\* with an error, leaves the stored records as they were.
C18_SearchLeavesStoreUnchanged ==
  [][(resp.op = "none" /\ resp'.op \in {"search_post", "search_get"})
       => store' = store]_vars

\* a search over a store that is not empty has failed
C18_Witness ==
  /\ resp.op \in {"search_post", "search_get"}
  /\ resp.code = 500
  /\ resp.n > 0

\* generate_snippet has been applied
SnippetOut == tout # NoneV /\ tout.t = "snippet"

\* the text generate_snippet works on
SnippetText == IF tt.t = "str" THEN tt.v ELSE JsonDumps(tt.v)

\* the number of the matched terms that occur in sentence i, lower-cased
TermsIn(i) ==
  Cardinality({k \in 1..Len(tout.matched_terms) :
                 OccursInLowered(tout.matched_terms[k], Sentences(SnippetText)[i])})

\* sentence i holds a matched term, no sentence holds more of them and
\* every sentence before it holds fewer
IsChosen(i) ==
  /\ i \in 1..Len(Sentences(SnippetText))
  /\ TermsIn(i) > 0
  /\ \A j \in 1..Len(Sentences(SnippetText)) :
       /\ TermsIn(j) <= TermsIn(i)
       /\ j < i => TermsIn(j) < TermsIn(i)

\* s whole if it has at most n characters, else its first n characters and
\* the marker
FirstCharsMarked(s, n) ==
  IF Len(s) <= n THEN s
  ELSE [k \in 1..(n + 3) |-> IF k <= n THEN s[k] ELSE "."]

\* C19 as stated: with a sentence holding a matched term the snippet is the
\* sentence that holds the most of them, the first of these (with or
\* without the whitespace around it); else it is the text, cut to
\* max_length characters and marked if it is longer.
C19_SnippetIsBestSentence ==
  SnippetOut =>
    IF \E i \in 1..Len(Sentences(SnippetText)) : IsChosen(i)
    THEN \E i \in 1..Len(Sentences(SnippetText)) :
           /\ IsChosen(i)
           /\ tout.snippet \in { Sentences(SnippetText)[i],
                                  StrStrip(Sentences(SnippetText)[i]) }
    ELSE tout.snippet = FirstCharsMarked(SnippetText, tout.max_length)

\* C19: with a sentence holding a matched term the snippet is the sentence
\* that holds the most of them, the first of these, without the whitespace
\* around it, and cut to max_length characters and marked if it is longer;
\* else it is the text, cut to max_length characters and marked if it is
\* longer.
C19_SnippetIsBestSentenceCut ==
  SnippetOut =>
    IF \E i \in 1..Len(Sentences(SnippetText)) : IsChosen(i)
    THEN \E i \in 1..Len(Sentences(SnippetText)) :
           /\ IsChosen(i)
           /\ tout.snippet = FirstCharsMarked(StrStrip(Sentences(SnippetText)[i]),
                                              tout.max_length)
    ELSE tout.snippet = FirstCharsMarked(SnippetText, tout.max_length)

\* two sentences hold the most matched terms; the first was chosen, and cut
C19_Witness ==
  /\ SnippetOut
  /\ \E i, j \in 1..Len(Sentences(SnippetText)) :
       /\ IsChosen(i) /\ i < j /\ TermsIn(j) = TermsIn(i)
       /\ StrStrip(Sentences(SnippetText)[i]) # StrStrip(Sentences(SnippetText)[j])
       /\ Len(StrStrip(Sentences(SnippetText)[i])) > tout.max_length
       /\ tout.snippet = FirstCharsMarked(StrStrip(Sentences(SnippetText)[i]),
                                          tout.max_length)

\* s ends in the marker
EndsInMarker(s) ==
  Len(s) >= 3 /\ \A k \in (Len(s) - 2)..Len(s) : s[k] = "."

\* the chosen sentence, stripped, or the text is longer than max_length
Exceeded ==
  \/ Len(SnippetText) > tout.max_length
  \/ \E i \in 1..Len(Sentences(SnippetText)) :
       IsChosen(i) /\ Len(StrStrip(Sentences(SnippetText)[i])) > tout.max_length

\* C20 as stated: the snippet has at most max_length + 3 characters, and
\* ends in the marker only if the chosen sentence or the text is longer
\* than max_length.
C20_SnippetBoundedMarkerOnlyIfExceeded ==
  SnippetOut =>
    /\ Len(tout.snippet) <= tout.max_length + 3
    /\ EndsInMarker(tout.snippet) => Exceeded

\* C20: the snippet has at most max_length + 3 characters; one of more than
\* max_length characters is max_length characters and the marker, and the
\* chosen sentence or the text is longer than max_length; a snippet that
\* ends in the marker with nothing longer than max_length is the whole
\* text, which ends in it.
C20_SnippetBoundedMarkerOrWholeText ==
  SnippetOut =>
    /\ Len(tout.snippet) <= tout.max_length + 3
    /\ Len(tout.snippet) > tout.max_length =>
         /\ Len(tout.snippet) = tout.max_length + 3
         /\ EndsInMarker(tout.snippet)
         /\ Exceeded
    /\ EndsInMarker(tout.snippet) => (Exceeded \/ tout.snippet = SnippetText)

\* a chosen sentence longer than max_length + 3, returned cut and marked
C20_Witness ==
  /\ SnippetOut
  /\ \E i \in 1..Len(Sentences(SnippetText)) :
       IsChosen(i) /\ Len(StrStrip(Sentences(SnippetText)[i])) > tout.max_length + 3
  /\ Len(tout.snippet) = tout.max_length + 3
  /\ EndsInMarker(tout.snippet)

\* C21: the matched terms are exactly the maximal runs of word characters
\* of the lower-cased query that are longer than 2 characters and occur in
\* the lower-cased text; none has 1 or 2 characters.
C21_MatchedTermsExactlyLongRunsInText ==
  (tout # NoneV /\ tout.t = "out") =>
    /\ tout.matched_terms =
         { SubSeq(Lower(tq), ab[1], ab[2]) : ab \in
             { ab \in (1..Len(tq)) \X (1..Len(tq)) :
                 /\ IsWordRun(Lower(tq), ab[1], ab[2])
                 /\ ab[2] - ab[1] + 1 > 2
                 /\ OccursInLowered(SubSeq(Lower(tq), ab[1], ab[2]), tt) } }
    /\ \A term \in tout.matched_terms : Len(term) > 2

\* the query 3 years analyst Power BI against Analyst, 4 years. Power BI:
\* years, analyst and power, without 3 and bi
C21_Witness ==
  /\ tout # NoneV /\ tout.t = "out"
  /\ tq = Q_Example /\ tt = T_Example
  /\ tout.matched_terms =
       { <<"y","e","a","r","s">>, <<"a","n","a","l","y","s","t">>,
         <<"p","o","w","e","r">> }

\* C22: for a query without tokens the final score of every GET item is
\* its intentNorm, so the items are returned in non-increasing order of
\* intentNorm whatever their relevance.
C22_NoTokenFinalIsIntentNorm ==
  (GetOK /\ tokenize_query(resp.query) = <<>>) =>
    /\ \A i \in 1..Len(resp.body) :
         FinalOf(resp.body[i]) = IntentNormOf(resp.body[i])
    /\ \A i, j \in 1..Len(resp.body) :
         i < j => RLe(IntentNormOf(resp.body[j]), IntentNormOf(resp.body[i]))

\* a query without tokens whose phrase matches: an item of relevance 0
\* ranks above an item of relevance above 0 and lower intentNorm
C22_Witness ==
  /\ GetOK /\ tokenize_query(resp.query) = <<>>
  /\ Len(resp.body) = 2
  /\ resp.body[1].relevance = 0 /\ resp.body[2].relevance > 0
  /\ RLt(IntentNormOf(resp.body[2]), IntentNormOf(resp.body[1]))

\* C23: looking up, shortlisting or rejecting an id that has no record is
\* answered with 404 (the lookup itself having been answered by the
\* provider).
C23_NotFoundIs404 ==
  (resp.op \in {"reject", "shortlist", "details"} /\ resp.n = 0 /\ ~resp.failed)
    => resp.code = 404

\* C27: the Candidates table holds at most one record for each Candidate
\* Name, whatever ingest_application calls ran and however they overlapped.
C27_OneRecordPerName ==
  \A i, j \in 1..Len(store) : store[i].name = store[j].name => i = j

\* C28: an ingest_application call that is answered with an error has not
\* created or changed a candidate record.
C28_ErrorLeavesCandidates ==
  \A w \in Workers :
    (ing[w].pc = "done" /\ ing[w].code # 200) => ~ing[w].changed

\* C29: the Intent Count stored for a candidate grows with the applications
\* ingested for them: an ingest that writes onto the candidate's existing
\* record stores a larger Intent Count than the record had.
C29_IntentCountGrows ==
  [][\A w \in Workers :
       (ing[w].pc = "upsert" /\ ing[w].existing # 0 /\ ing'[w].pc = "app")
         => store'[ing[w].existing].intent > store[ing[w].existing].intent]_vars

\* C30: a record whose Status is Rejected keeps that Status through every
\* operation (the API has no operation that sets a Status to Active on
\* request), an ingest for the rejected candidate's name included.
C30_RejectedStaysRejected ==
  [][\A i \in 1..Len(store) :
       store[i].status = "Rejected" => store'[i].status = "Rejected"]_vars

\* C24: the page loop of GET /api/search ends, whatever the provider
\* answers: the request reaches its return.
C24_PageLoopTerminates == <>(uiPc = "done")

\* C25: the relevance of a simple_app result is within [0, 1] (0 to 1000
\* thousandths), whatever Final Score the record holds.
C25_SimpleRelevanceInUnit ==
  (tout # NoneV /\ tout.t = "simple") => (0 <= tout.relevance /\ tout.relevance <= 1000)

\* C26: when extract_matched_terms finds terms of the query in the text, the
\* snippet generate_snippet returns for that text contains one of them,
\* letter case aside.
C26_SnippetHoldsMatchedTerm ==
  (tout # NoneV /\ tout.t = "display" /\ tout.matched_terms # <<>>)
    => \E i \in 1..Len(tout.matched_terms) :
         IsSubstr(tout.matched_terms[i], Lower(tout.snippet))

====
